---------------------------- MODULE Spec2Model ----------------------------
(***************************************************************************)
(* A model of the gcode crate's command data model (src/src/types.rs:      *)
(* Span, Word, Mnemonic, Gcode) and of the simulator's machine state       *)
(* (src/gcode-simulator/src/state.rs: State).                              *)
(*                                                                         *)
(* Conventions                                                             *)
(*  - a `char` is its code point (88 is 'X', 120 is 'x'), a string is the  *)
(*    sequence of its code points;                                         *)
(*  - Option<T> is a sequence: None is << >>, Some(v) is <<v>>;            *)
(*  - a decimal literal with at most two places (1.2, -1.23, 500.0) is the *)
(*    integer number of its hundredths (120, -123, 50000); the f32 it      *)
(*    denotes is computed by F32Of where the code does f32 arithmetic;     *)
(*  - a Length is an integer number of micrometres, a Velocity an integer  *)
(*    number of micrometres per second.                                    *)
(***************************************************************************)
EXTENDS Integers, Sequences, FiniteSets, TLC

VARIABLES
    g,          \* the Gcode under construction
    last,       \* the last operation on g and its inputs (history)
    supplied,   \* every Span handed to Gcode::new, add_argument, with_line_number (history)
    firstAt,    \* for each letter ever stored, the position its first insertion gave it (history)
    num,        \* the command number whose major/minor parts are taken
    numOut,     \* None, or Some([major, minor]) once they were computed
    spIn,       \* three spans
    spOut,      \* None, or Some of the merges computed from spIn
    st,         \* the simulator State
    stPrev,     \* the State before the last operation (history)
    stLast,     \* the last operation on st and its input (history)
    stInit      \* the State the run started from (history)

gvars == <<g, last, supplied, firstAt>>
nvars == <<num, numOut>>
svars == <<spIn, spOut>>
tvars == <<st, stPrev, stLast, stInit>>
vars == <<g, last, supplied, firstAt, num, numOut, spIn, spOut, st, stPrev, stLast, stInit>>

None == << >>
Some(v) == <<v>>

Min2(a, b) == IF a <= b THEN a ELSE b
Max2(a, b) == IF a >= b THEN a ELSE b

RECURSIVE Pow2(_)
Pow2(n) == IF n = 0 THEN 1 ELSE 2 * Pow2(n - 1)

-----------------------------------------------------------------------------
(* Span                                                                    *)

Span(start, end, source_line) ==
    [start |-> start, end |-> end, source_line |-> source_line]

DefaultSpan == Span(0, 0, 0)

SpanMergeKeepsSelfEnd(self, other) ==
    [start |-> Min2(self.start, other.start),
     end |-> self.end,
     source_line |-> Min2(self.source_line, other.source_line)]

\* Span::merge
Merge(self, other) ==
    [start |-> Min2(self.start, other.start),
     end |-> Max2(self.end, other.end),
     source_line |-> Min2(self.source_line, other.source_line)]

-----------------------------------------------------------------------------
(* char, Word, Mnemonic                                                    *)

IsAsciiLowercase(c) == c \in 97..122

\* char::to_ascii_uppercase
ToAsciiUppercase(c) == IF IsAsciiLowercase(c) THEN c - 32 ELSE c

\* Word::new
Word(letter, value, span) == [letter |-> letter, value |-> value, span |-> span]

Mnemonics == {"ProgramNumber", "ToolChange", "MachineRoutine", "General"}

MAX_ARGS == 8

-----------------------------------------------------------------------------
(* Gcode                                                                   *)

\* Gcode::new
NewGcode(mnemonic, number, span) ==
    [mnemonic |-> mnemonic,
     number |-> number,
     span |-> span,
     arguments |-> << >>,
     line_number |-> None]

\* self.arguments.iter().position(|w| w.letter == letter): 0 stands for None
Position(arguments, letter) ==
    IF \E i \in 1..Len(arguments) : arguments[i].letter = letter
    THEN CHOOSE i \in 1..Len(arguments) :
            /\ arguments[i].letter = letter
            /\ \A j \in 1..(i - 1) : arguments[j].letter # letter
    ELSE 0

\* ArrayVec::try_push: the push is refused when the vector is at capacity
TryPush(arguments, arg) ==
    IF Len(arguments) < MAX_ARGS THEN Append(arguments, arg) ELSE arguments

\* Gcode::merge_span
MergeSpan(gc, span) == [gc EXCEPT !.span = Merge(gc.span, span)]

\* Faulty variants of Gcode::add_argument, each with one plausible slip; the
\* properties below are shown to fail on them.
AddArgumentNoUppercase(gc, word) ==
    LET merged == MergeSpan(gc, word.span)
        i == Position(merged.arguments, word.letter)
    IN  IF i # 0
        THEN [merged EXCEPT !.arguments[i] = word]
        ELSE [merged EXCEPT !.arguments = TryPush(merged.arguments, word)]

AddArgumentLooksUpRawLetter(gc, word) ==
    LET merged == MergeSpan(gc, word.span)
        arg == [word EXCEPT !.letter = ToAsciiUppercase(word.letter)]
        i == Position(merged.arguments, word.letter)
    IN  IF i # 0
        THEN [merged EXCEPT !.arguments[i] = arg]
        ELSE [merged EXCEPT !.arguments = TryPush(merged.arguments, arg)]

AddArgumentMovesToBack(gc, word) ==
    LET merged == MergeSpan(gc, word.span)
        arg == [word EXCEPT !.letter = ToAsciiUppercase(word.letter)]
        i == Position(merged.arguments, arg.letter)
    IN  IF i # 0
        THEN [merged EXCEPT !.arguments =
                Append(SelectSeq(merged.arguments, LAMBDA w : w.letter # arg.letter), arg)]
        ELSE [merged EXCEPT !.arguments = TryPush(merged.arguments, arg)]

AddArgumentEvictsWhenFull(gc, word) ==
    LET merged == MergeSpan(gc, word.span)
        arg == [word EXCEPT !.letter = ToAsciiUppercase(word.letter)]
        i == Position(merged.arguments, arg.letter)
    IN  IF i # 0
        THEN [merged EXCEPT !.arguments[i] = arg]
        ELSE IF Len(merged.arguments) < MAX_ARGS
             THEN [merged EXCEPT !.arguments = Append(merged.arguments, arg)]
             ELSE [merged EXCEPT !.arguments[MAX_ARGS] = arg]

AddArgumentSkipsSpanOfDropped(gc, word) ==
    LET arg == [word EXCEPT !.letter = ToAsciiUppercase(word.letter)]
        i == Position(gc.arguments, arg.letter)
    IN  IF i # 0
        THEN [MergeSpan(gc, word.span) EXCEPT !.arguments[i] = arg]
        ELSE IF Len(gc.arguments) < MAX_ARGS
             THEN [MergeSpan(gc, word.span) EXCEPT !.arguments = Append(gc.arguments, arg)]
             ELSE gc

\* Gcode::add_argument (and Gcode::with_argument, which calls it and returns self)
AddArgumentTo(gc, word) ==
    LET merged == MergeSpan(gc, word.span)
        arg == [word EXCEPT !.letter = ToAsciiUppercase(word.letter)]
        i == Position(merged.arguments, arg.letter)
    IN  IF i # 0
        THEN [merged EXCEPT !.arguments[i] = arg]
        ELSE [merged EXCEPT !.arguments = TryPush(merged.arguments, arg)]

\* Gcode::with_argument
WithArgumentOn(gc, word) == AddArgumentTo(gc, word)

\* Gcode::with_line_number
WithLineNumberOn(gc, number, span) ==
    [MergeSpan(gc, span) EXCEPT !.line_number = Some(number)]

ValueForExactCase(gc, letter) ==
    LET i == Position(gc.arguments, letter)
    IN  IF i = 0 THEN None ELSE Some(gc.arguments[i].value)

\* Gcode::value_for
ValueFor(gc, letter) ==
    LET upper == ToAsciiUppercase(letter)
        i == Position(gc.arguments, upper)
    IN  IF i = 0 THEN None ELSE Some(gc.arguments[i].value)


-----------------------------------------------------------------------------
(* Display                                                                 *)

RECURSIVE DecimalDigits(_)
\* the decimal digits of a non-negative integer, as written by `{}`
DecimalDigits(n) ==
    IF n < 10 THEN <<48 + n>> ELSE Append(DecimalDigits(n \div 10), 48 + (n % 10))

\* `{}` of a u32
U32Text(n) == DecimalDigits(n)

\* `{}` of the f32 nearest to a decimal literal of at most two places: the
\* shortest decimal that reads back as that f32, which is the literal itself
\* without trailing zeros and without a bare point (500.0 is "500", 1.2 is
\* "1.2", -1.23 is "-1.23")
F32Text(h) ==
    LET a == IF h < 0 THEN -h ELSE h
        sign == IF h < 0 THEN <<45>> ELSE << >>
        tenths == (a % 100) \div 10
        hundredths == a % 10
        fraction == IF a % 100 = 0 THEN << >>
                    ELSE IF hundredths = 0 THEN <<46, 48 + tenths>>
                    ELSE <<46, 48 + tenths, 48 + hundredths>>
    IN  sign \o DecimalDigits(a \div 100) \o fraction

\* impl Display for Mnemonic
MnemonicText(mnemonic) ==
    CASE mnemonic = "ProgramNumber" -> <<79>>
      [] mnemonic = "ToolChange" -> <<84>>
      [] mnemonic = "MachineRoutine" -> <<77>>
      [] mnemonic = "General" -> <<71>>

\* impl Display for Word
WordText(word) == <<word.letter>> \o F32Text(word.value)

RECURSIVE WriteArgs(_, _)
\* the loop `for arg in self.args() { write!(f, " {}", arg)?; }`
WriteArgs(buffer, arguments) ==
    IF arguments = << >> THEN buffer
    ELSE WriteArgs(buffer \o <<32>> \o WordText(Head(arguments)), Tail(arguments))

RECURSIVE WriteArgsReversed(_, _)
WriteArgsReversed(buffer, arguments) ==
    IF arguments = << >> THEN buffer
    ELSE WriteArgsReversed(buffer, Tail(arguments)) \o <<32>> \o WordText(Head(arguments))

RenderArgsReversed(gc) ==
    LET f1 == IF gc.line_number # None
              THEN <<78>> \o U32Text(gc.line_number[1]) \o <<32>>
              ELSE << >>
        f2 == f1 \o MnemonicText(gc.mnemonic)
        f3 == f2 \o F32Text(gc.number)
    IN  WriteArgsReversed(f3, gc.arguments)

\* impl Display for Gcode
Render(gc) ==
    LET f1 == IF gc.line_number # None
              THEN <<78>> \o U32Text(gc.line_number[1]) \o <<32>>
              ELSE << >>
        f2 == f1 \o MnemonicText(gc.mnemonic)
        f3 == f2 \o F32Text(gc.number)
    IN  WriteArgs(f3, gc.arguments)

-----------------------------------------------------------------------------
(* f32 arithmetic of Gcode::major_number and Gcode::minor_number           *)
(*                                                                         *)
(* A non-negative f32 is [m, e], the value m * 2^e with 2^23 <= m < 2^24   *)
(* (or m = 0).  All products stay below 2^31.                              *)

\* the f32 nearest to h / 100 (round to nearest, ties to even), 0 <= h
RECURSIVE Scale(_, _)
Scale(h, p) == IF h * Pow2(p) >= 100 * Pow2(23) THEN p ELSE Scale(h, p + 1)

F32Of(h) ==
    IF h = 0 THEN [m |-> 0, e |-> 0]
    ELSE LET p == Scale(h, 0)
             n == h * Pow2(p)
             q == n \div 100
             r == n % 100
             m == IF 2 * r > 100 \/ (2 * r = 100 /\ q % 2 = 1) THEN q + 1 ELSE q
         IN  IF m = Pow2(24) THEN [m |-> Pow2(23), e |-> 1 - p]
             ELSE [m |-> m, e |-> -p]

\* f32::trunc of a non-negative f32, as an integer
F32Trunc(f) ==
    IF f.e >= 0 THEN f.m * Pow2(f.e)
    ELSE IF -f.e > 24 THEN 0
    ELSE f.m \div Pow2(-f.e)

\* f32::fract of a non-negative f32: the value r * 2^e (exact)
F32Fract(f) ==
    IF f.e >= 0 THEN [r |-> 0, e |-> f.e]
    ELSE IF -f.e > 24 THEN [r |-> f.m, e |-> f.e]
    ELSE [r |-> f.m % Pow2(-f.e), e |-> f.e]

\* the f32 literal 0.1 is TenthMantissa * 2^-27
TenthMantissa == 13421773

RECURSIVE LongDiv(_, _, _, _)
\* binary long division: `bits` more quotient bits of rem / d
LongDiv(quot, rem, d, bits) ==
    IF bits = 0 THEN [quot |-> quot, rem |-> rem]
    ELSE IF 2 * rem >= d THEN LongDiv(2 * quot + 1, 2 * rem - d, d, bits - 1)
    ELSE LongDiv(2 * quot, 2 * rem, d, bits - 1)

RECURSIVE BitLength(_)
BitLength(n) == IF n = 0 THEN 0 ELSE 1 + BitLength(n \div 2)

\* `fraction / 0.1` in f32: the exact quotient in units of 2^-26, rounded to
\* 24 significant bits (round to nearest, ties to even).  A quotient below
\* 2^-2 is returned truncated: it rounds to 0 below either way.
F32DivByTenth(fr) ==
    LET s == fr.e + 53
        d == IF s < 0 \/ fr.r = 0 THEN [quot |-> 0, rem |-> fr.r]
             ELSE LongDiv(fr.r \div TenthMantissa, fr.r % TenthMantissa, TenthMantissa, s)
        nb == BitLength(d.quot)
    IN  IF nb <= 24 THEN d.quot
        ELSE LET unit == Pow2(nb - 24)
                 low == d.quot % unit
                 kept == d.quot - low
                 up == \/ 2 * low > unit
                       \/ 2 * low = unit /\ d.rem # 0
                       \/ 2 * low = unit /\ d.rem = 0 /\ (kept \div unit) % 2 = 1
             IN  IF up THEN kept + unit ELSE kept

\* f32::round (half away from zero) of a non-negative value in units of 2^-26
F32Round(v) == (v + Pow2(25)) \div Pow2(26)

\* `as u32` of an integer-valued f32 (saturating below; the model's numbers
\* stay far below u32::MAX)
AsU32(x) == IF x < 0 THEN 0 ELSE x

Abs(h) == IF h < 0 THEN -h ELSE h

\* Gcode::major_number
MajorNumber(number) ==
    AsU32(IF number < 0 THEN -F32Trunc(F32Of(-number)) ELSE F32Trunc(F32Of(number)))

\* Gcode::minor_number
MinorNumber(number) ==
    LET fraction == F32Fract(F32Of(Abs(number)))
        first_digit == AsU32(F32Round(F32DivByTenth(fraction)))
    IN  IF first_digit = 0 THEN None ELSE Some(first_digit)

-----------------------------------------------------------------------------
(* State (gcode-simulator)                                                 *)

MicrometresPerHundredthMillimetre == 10
MicrometresPerHundredthInch == 254

\* Length::new::<millimeter>(value), Length::new::<inch>(value)
Millimetres(value) == value * MicrometresPerHundredthMillimetre
Inches(value) == value * MicrometresPerHundredthInch

\* Velocity::new::<millimeter_per_second>(value)
MillimetresPerSecond(value) == value * MicrometresPerHundredthMillimetre

\* Time::new::<second>(1.0)
OneSecond == 1

ToLengthIgnoresUnits(state, value) == Millimetres(value)

\* State::to_length
ToLength(state, value) ==
    CASE state.units = "Metric" -> Millimetres(value)
      [] state.units = "Imperial" -> Inches(value)

\* State::to_speed
ToSpeed(state, value) ==
    CASE state.units = "Metric" -> MillimetresPerSecond(value)
      [] state.units = "Imperial" -> Inches(value) \div OneSecond

\* State::with_x
WithXOn(state, value) == [state EXCEPT !.x = ToLength(state, value)]

\* State::with_y
WithYOn(state, value) == [state EXCEPT !.y = ToLength(state, value)]

\* State::with_feed_rate
WithFeedRateOn(state, value) == [state EXCEPT !.feed_rate = ToSpeed(state, value)]

\* State::with_coordinate_mode
WithCoordinateModeOn(state, value) == [state EXCEPT !.coordinate_mode = value]

\* impl Default for State
DefaultState ==
    [x |-> Millimetres(0),
     y |-> Millimetres(0),
     feed_rate |-> MillimetresPerSecond(10000),
     coordinate_mode |-> "Absolute",
     units |-> "Metric"]

CoordinateModes == {"Absolute", "Relative"}
UnitSystems == {"Metric", "Imperial"}

-----------------------------------------------------------------------------
(* The inputs of the Gcode builder                                         *)

\* The argument letters of the input, in the order in which the input first
\* uses them: X Y Z I J K F S P R E.  add_argument reads a letter only
\* through to_ascii_uppercase and ==, so this order of first use stands for
\* every other; it is not alphabetical, so that insertion order and sorted
\* order differ.
Pool == <<88, 89, 90, 73, 74, 75, 70, 83, 80, 82, 69>>

\* how many letters of Pool the input uses: one more than MAX_ARGS, so that a
\* ninth distinct letter arrives at a full list
NumLetters == 9

\* how many letters of Pool the input of the display runs uses
NumShort == 2

Values == <<50000, -123>>

InputSpans == <<Span(10, 20, 1), Span(0, 5, 0)>>

\* the letters that arrive with every value and every span
VariedLetters == {Pool[1], Pool[2]}

PoolIndex(upper) == CHOOSE i \in 1..Len(Pool) : Pool[i] = upper

LettersOf(n) == {Pool[i] : i \in 1..n} \cup {Pool[i] + 32 : i \in 1..n}

\* The words of the input.  A letter of VariedLetters, or one past the
\* capacity of the list, arrives with every value and span; the letters in
\* between, which only fill the list, arrive with the first value and span.
InputWords(n) ==
    {word \in {Word(letter, Values[v], InputSpans[s]) :
                  letter \in LettersOf(n), v \in 1..Len(Values), s \in 1..Len(InputSpans)} :
        \/ ToAsciiUppercase(word.letter) \in VariedLetters
        \/ PoolIndex(ToAsciiUppercase(word.letter)) > MAX_ARGS
        \/ word.value = Values[1] /\ word.span = InputSpans[1]}

AllWords == InputWords(NumLetters)

ShortWords == InputWords(NumShort)

LineNumbers == {10, 20}

StoredLetters(gc) == {gc.arguments[i].letter : i \in 1..Len(gc.arguments)}

\* a word of the input: its letter is one already stored, or the next letter
\* of Pool (the stored letters are the first ones of Pool), or any letter
\* once the list is full
Offered(gc, n, letter) ==
    LET upper == ToAsciiUppercase(letter)
        next == Len(gc.arguments) + 1
    IN  IF upper \in StoredLetters(gc) THEN TRUE
        ELSE IF Len(gc.arguments) >= MAX_ARGS THEN TRUE
        ELSE next <= n /\ upper = Pool[next]

-----------------------------------------------------------------------------
(* History                                                                 *)

\* what `last` records of an operation: its name, its inputs, and of the
\* Gcode it was called on the span, the number of arguments, and whether the
\* word's letter (in upper case) was among them
Call(op, gc, letter, value, span, n) ==
    [op |-> op, letter |-> letter, value |-> value, span |-> span, n |-> n,
     span_before |-> gc.span,
     len_before |-> Len(gc.arguments),
     had |-> ToAsciiUppercase(letter) \in StoredLetters(gc)]

NoCall(span) ==
    [op |-> "new", letter |-> 0, value |-> 0, span |-> span, n |-> 0,
     span_before |-> span, len_before |-> 0, had |-> FALSE]

\* firstAt after a call with `letter` that returned `gc`: the position of a
\* letter is recorded by the first call that leaves it stored
Recorded(first, gc, letter) ==
    LET upper == ToAsciiUppercase(letter)
    IN  IF upper \notin DOMAIN first /\ Position(gc.arguments, upper) # 0
        THEN first @@ (upper :> Position(gc.arguments, upper))
        ELSE first

-----------------------------------------------------------------------------
(* Initial values of the variables a specification does not use            *)

GcodeIdle ==
    /\ g = NewGcode("General", 0, DefaultSpan)
    /\ last = NoCall(DefaultSpan)
    /\ supplied = {DefaultSpan}
    /\ firstAt = << >>

NumberIdle == num = 0 /\ numOut = None

SpanIdle == spIn = <<DefaultSpan, DefaultSpan, DefaultSpan>> /\ spOut = None

StateIdle ==
    /\ st = DefaultState
    /\ stPrev = DefaultState
    /\ stInit = DefaultState
    /\ stLast = [op |-> "default", raw |-> 0, mode |-> "Absolute"]

-----------------------------------------------------------------------------
(* The Gcode builder as a state machine                                    *)

\* Gcode::new(mnemonic, number, span)
New(mnemonics, numbers, spans) ==
    \E mnemonic \in mnemonics, number \in numbers, span \in spans :
        /\ g = NewGcode(mnemonic, number, span)
        /\ last = NoCall(span)
        /\ supplied = {span}
        /\ firstAt = << >>

Init ==
    /\ New({"MachineRoutine"}, {120}, {Span(3, 8, 2)})
    /\ NumberIdle /\ SpanIdle /\ StateIdle

\* g.add_argument(word)
AddArgument ==
    \E word \in AllWords :
        /\ Offered(g, NumLetters, word.letter)
        /\ g' = AddArgumentTo(g, word)
        /\ last' = Call("argument", g, word.letter, word.value, word.span, 0)
        /\ supplied' = supplied \cup {word.span}
        /\ firstAt' = Recorded(firstAt, g', word.letter)
        /\ UNCHANGED <<nvars, svars, tvars>>

\* g = g.with_argument(word), which is add_argument and `self`
WithArgument ==
    \E word \in AllWords :
        /\ Offered(g, NumLetters, word.letter)
        /\ g' = WithArgumentOn(g, word)
        /\ last' = Call("argument", g, word.letter, word.value, word.span, 0)
        /\ supplied' = supplied \cup {word.span}
        /\ firstAt' = Recorded(firstAt, g', word.letter)
        /\ UNCHANGED <<nvars, svars, tvars>>

\* g = g.with_line_number(number, span)
WithLineNumber ==
    \E number \in LineNumbers, s \in 1..Len(InputSpans) :
        /\ g' = WithLineNumberOn(g, number, InputSpans[s])
        /\ last' = Call("with_line_number", g, 0, 0, InputSpans[s], number)
        /\ supplied' = supplied \cup {InputSpans[s]}
        /\ UNCHANGED <<firstAt, nvars, svars, tvars>>

Next == AddArgument \/ WithArgument \/ WithLineNumber

Spec == Init /\ [][Next]_vars

\* The display runs: every mnemonic, two numbers, NumShort letters.
InitDisplay ==
    /\ New(Mnemonics, {120, 100}, {DefaultSpan})
    /\ NumberIdle /\ SpanIdle /\ StateIdle

AddArgumentShort ==
    \E word \in ShortWords :
        /\ Offered(g, NumShort, word.letter)
        /\ g' = AddArgumentTo(g, word)
        /\ last' = Call("argument", g, word.letter, word.value, word.span, 0)
        /\ supplied' = supplied \cup {word.span}
        /\ firstAt' = Recorded(firstAt, g', word.letter)
        /\ UNCHANGED <<nvars, svars, tvars>>

NextDisplay == AddArgumentShort \/ WithLineNumber

SpecDisplay == InitDisplay /\ [][NextDisplay]_vars

-----------------------------------------------------------------------------
(* major_number and minor_number applied to the numbers 0.00 .. MaxNumber  *)

MaxNumber == 250

InitNumber ==
    /\ num \in 0..MaxNumber
    /\ numOut = None
    /\ GcodeIdle /\ SpanIdle /\ StateIdle

\* Gcode::new(Mnemonic::General, num, Span::default()), then both accessors
TakeNumbers ==
    /\ numOut = None
    /\ LET gc == NewGcode("General", num, DefaultSpan)
       IN  numOut' = Some([major |-> MajorNumber(gc.number),
                           minor |-> MinorNumber(gc.number)])
    /\ UNCHANGED <<num, gvars, svars, tvars>>

NextNumber == TakeNumbers

SpecNumber == InitNumber /\ [][NextNumber]_vars

-----------------------------------------------------------------------------
(* Span::merge applied to three spans                                      *)

Positions == {0, 5, 10, 20}

MaxLine == 1

\* the spans Span::new accepts (its debug_assert!(start <= end))
Spans ==
    {span \in {Span(start, end, line) :
                  start \in Positions, end \in Positions, line \in 0..MaxLine} :
        span.start <= span.end}

InitSpan ==
    /\ spIn \in {<<a, b, c>> : a \in Spans, b \in Spans, c \in Spans}
    /\ spOut = None
    /\ GcodeIdle /\ NumberIdle /\ StateIdle

\* a.merge(b), b.merge(a), a.merge(b).merge(c), a.merge(b.merge(c))
MergeSpans ==
    /\ spOut = None
    /\ LET a == spIn[1]
           b == spIn[2]
           c == spIn[3]
       IN  spOut' = Some([ab |-> Merge(a, b),
                          ba |-> Merge(b, a),
                          ab_c |-> Merge(Merge(a, b), c),
                          a_bc |-> Merge(a, Merge(b, c))])
    /\ UNCHANGED <<spIn, gvars, nvars, tvars>>

NextSpan == MergeSpans

SpecSpan == InitSpan /\ [][NextSpan]_vars

-----------------------------------------------------------------------------
(* State as a state machine                                                *)

\* raw literals: 0.0, 10.0, -2.5
Raws == {0, 1000, -250}

\* State::default(), or the same literal with units: Units::Imperial
InitState ==
    /\ \E units \in UnitSystems : st = [DefaultState EXCEPT !.units = units]
    /\ stPrev = st
    /\ stInit = st
    /\ stLast = [op |-> "default", raw |-> 0, mode |-> "Absolute"]
    /\ GcodeIdle /\ NumberIdle /\ SpanIdle

\* st = st.with_x(raw)
WithX ==
    \E raw \in Raws :
        /\ st' = WithXOn(st, raw)
        /\ stLast' = [op |-> "with_x", raw |-> raw, mode |-> "Absolute"]
        /\ stPrev' = st
        /\ UNCHANGED <<stInit, gvars, nvars, svars>>

\* st = st.with_y(raw)
WithY ==
    \E raw \in Raws :
        /\ st' = WithYOn(st, raw)
        /\ stLast' = [op |-> "with_y", raw |-> raw, mode |-> "Absolute"]
        /\ stPrev' = st
        /\ UNCHANGED <<stInit, gvars, nvars, svars>>

\* st = st.with_feed_rate(raw)
WithFeedRate ==
    \E raw \in Raws :
        /\ st' = WithFeedRateOn(st, raw)
        /\ stLast' = [op |-> "with_feed_rate", raw |-> raw, mode |-> "Absolute"]
        /\ stPrev' = st
        /\ UNCHANGED <<stInit, gvars, nvars, svars>>

\* st = st.with_coordinate_mode(mode)
WithCoordinateMode ==
    \E mode \in CoordinateModes :
        /\ st' = WithCoordinateModeOn(st, mode)
        /\ stLast' = [op |-> "with_coordinate_mode", raw |-> 0, mode |-> mode]
        /\ stPrev' = st
        /\ UNCHANGED <<stInit, gvars, nvars, svars>>

NextState == WithX \/ WithY \/ WithFeedRate \/ WithCoordinateMode

SpecState == InitState /\ [][NextState]_vars

-----------------------------------------------------------------------------
(* Properties of the Gcode builder (Spec)                                  *)

WasArgument(call) == call.op = "argument"

\* the call found the list full and its letter not stored: the word is dropped
WasDropped(call) ==
    WasArgument(call) /\ ~call.had /\ call.len_before = MAX_ARGS

\* the upper and the lower case of an ASCII letter
UpperOf(letter) == IF letter >= 97 THEN letter - 32 ELSE letter
LowerOf(letter) == IF letter >= 97 THEN letter ELSE letter + 32

\* C1: in every Gcode reachable from Gcode::new by add_argument,
\* with_argument and with_line_number calls, with letters of either case, no
\* two entries of the argument list have the same letter.
C1_LettersUnique ==
    \A i, j \in 1..Len(g.arguments) :
        i # j => g.arguments[i].letter # g.arguments[j].letter

\* a lower-case word has just overwritten the entry of its upper-case letter,
\* in a list of several arguments
C1_Witness ==
    /\ WasArgument(last)
    /\ last.had
    /\ IsAsciiLowercase(last.letter)
    /\ Len(g.arguments) >= 3

\* a step that adds a word whose letter is stored leaves the length, puts the
\* word's value at the index of the letter's first insertion and leaves every
\* other entry as it was
C2_Overwrite ==
    LET upper == UpperOf(last'.letter)
    IN  (WasArgument(last') /\ upper \in StoredLetters(g)) =>
            /\ Len(g'.arguments) = Len(g.arguments)
            /\ upper \in DOMAIN firstAt
            /\ firstAt[upper] \in 1..Len(g'.arguments)
            /\ g'.arguments[firstAt[upper]].letter = upper
            /\ g'.arguments[firstAt[upper]].value = last'.value
            /\ \A j \in 1..Len(g.arguments) :
                    j # firstAt[upper] => g'.arguments[j] = g.arguments[j]

\* C2: a word whose letter, folded to upper case, is already stored
\* overwrites that entry in place: the argument count is unchanged, the entry
\* at the index of the letter's first insertion now carries the word's value,
\* and every other entry keeps its index and value.
C2_OverwritesInPlace == [][C2_Overwrite]_vars

\* x = v1 then X = v2: one argument, X with value v2, at the first position
C2_Witness ==
    /\ WasArgument(last)
    /\ last.had
    /\ last.letter = 88
    /\ last.value = Values[2]
    /\ Len(g.arguments) = 1
    /\ g.arguments[1].letter = 88
    /\ g.arguments[1].value = Values[2]

\* a step that adds a word to a list of MAX_ARGS entries overwrites the entry
\* of its letter, or leaves the list as it was
C3_Full ==
    LET upper == UpperOf(last'.letter)
    IN  (WasArgument(last') /\ Len(g.arguments) = MAX_ARGS) =>
            IF upper \in StoredLetters(g)
            THEN /\ Len(g'.arguments) = MAX_ARGS
                 /\ \E i \in 1..MAX_ARGS :
                        /\ g.arguments[i].letter = upper
                        /\ g'.arguments[i].letter = upper
                        /\ g'.arguments[i].value = last'.value
            ELSE g'.arguments = g.arguments

\* C3: the argument list never holds more than 8 entries; a word with a
\* letter not yet stored, added to a list of 8, is dropped and the list
\* (letters, values, order) is what it was before the call; a word whose
\* letter is stored still overwrites its entry when the list is full.
C3_SilentDrop ==
    /\ [](Len(g.arguments) <= MAX_ARGS)
    /\ [][C3_Full]_vars

\* a ninth distinct letter has just been added to a full list
C3_Witness ==
    /\ WasDropped(last)
    /\ Len(g.arguments) = MAX_ARGS
    /\ UpperOf(last.letter) \notin StoredLetters(g)

\* C4: every letter stored in the argument list is upper case, whatever the
\* case of the letter of the word that was passed in.
C4_LettersUppercase ==
    \A i \in 1..Len(g.arguments) : g.arguments[i].letter \in 65..90

\* a lower-case word has just been stored
C4_Witness ==
    /\ WasArgument(last)
    /\ last.letter \in 97..122
    /\ ~WasDropped(last)
    /\ \E i \in 1..Len(g.arguments) :
          /\ g.arguments[i].letter = last.letter - 32
          /\ g.arguments[i].value = last.value

\* both cases of a letter give the same result: the value of the stored
\* argument with the upper-case letter, None when there is none
C5_Lookup ==
    \A letter \in LettersOf(NumLetters) :
        /\ ValueFor(g, letter) = ValueFor(g, UpperOf(letter))
        /\ ValueFor(g, letter) = ValueFor(g, LowerOf(letter))
        /\ IF \E i \in 1..Len(g.arguments) : g.arguments[i].letter = UpperOf(letter)
           THEN \E i \in 1..Len(g.arguments) :
                    /\ g.arguments[i].letter = UpperOf(letter)
                    /\ ValueFor(g, letter) = Some(g.arguments[i].value)
           ELSE ValueFor(g, letter) = None

\* a step that adds a word makes its value the result for its letter, unless
\* the word is dropped; every other result stays
C5_MostRecent ==
    \A letter \in LettersOf(NumLetters) :
        IF WasArgument(last') /\ UpperOf(letter) = UpperOf(last'.letter)
        THEN IF Len(g.arguments) = MAX_ARGS /\ UpperOf(letter) \notin StoredLetters(g)
             THEN ValueFor(g', letter) = None
             ELSE ValueFor(g', letter) = Some(last'.value)
        ELSE ValueFor(g', letter) = ValueFor(g, letter)

\* C5: value_for is a case-insensitive lookup: both cases of a letter give
\* the same result; the result is the value of the stored argument whose
\* letter is the upper case of the one asked for, None when there is none;
\* and that value is the one given by the most recent add_argument for the
\* letter that was not dropped.
C5_ValueFor == []C5_Lookup /\ [][C5_MostRecent]_vars

\* an upper-case word has just overwritten a stored value, and the lookup by
\* the lower-case letter returns the new value, while a letter that was
\* dropped earlier or never added is absent
C5_Witness ==
    /\ WasArgument(last)
    /\ last.had
    /\ last.letter \in 65..90
    /\ ValueFor(g, last.letter + 32) = Some(last.value)
    /\ ValueFor(g, Pool[NumLetters] + 32) = None
    /\ Len(g.arguments) = MAX_ARGS

\* what a step does to the span, and what with_line_number leaves alone
C10_Step ==
    /\ WasArgument(last') => g'.span = Merge(g.span, last'.span)
    /\ last'.op = "with_line_number" =>
            /\ g'.span = Merge(g.span, last'.span)
            /\ g'.line_number = Some(last'.n)
            /\ g'.mnemonic = g.mnemonic
            /\ g'.number = g.number
            /\ g'.arguments = g.arguments
    /\ g'.span.start <= g.span.start
    /\ g'.span.end >= g.span.end

\* the span is the hull of the spans supplied so far
C10_Hull ==
    /\ \E s \in supplied : g.span.start = s.start
    /\ \A s \in supplied : g.span.start <= s.start
    /\ \E s \in supplied : g.span.end = s.end
    /\ \A s \in supplied : g.span.end >= s.end
    /\ \E s \in supplied : g.span.source_line = s.source_line
    /\ \A s \in supplied : g.span.source_line <= s.source_line

\* C10: add_argument / with_argument(word) sets the span to
\* merge(previous span, word.span); with_line_number(n, s) sets it to
\* merge(previous span, s) and line_number to Some(n), and changes neither
\* mnemonic, number nor arguments; so the span's start is the least start,
\* its end the greatest end and its source_line the least source_line over
\* all spans supplied so far (those of overwriting and of dropped words
\* included), the start never increases and the end never decreases.
C10_SpanIsHull == []C10_Hull /\ [][C10_Step]_vars

\* a dropped word has just moved the start of the span down
C10_Witness ==
    /\ WasDropped(last)
    /\ g.span.start < last.span_before.start
    /\ g.span.start = last.span.start

-----------------------------------------------------------------------------
(* Properties of major_number and minor_number (SpecNumber)                *)

\* the (number, major, minor) triples of tests::major_and_minor_numbers_make_sense
TestTriples ==
    {<<100, 1, None>>, <<110, 1, Some(1)>>, <<120, 1, Some(2)>>, <<130, 1, Some(3)>>,
     <<140, 1, Some(4)>>, <<150, 1, Some(5)>>, <<160, 1, Some(6)>>, <<170, 1, Some(7)>>,
     <<180, 1, Some(8)>>, <<190, 1, Some(9)>>, <<200, 2, None>>}

\* the eleven triples of the test hold
TestTriplesHold ==
    \A t \in TestTriples :
        (numOut # None /\ num = t[1]) =>
            numOut[1].major = t[2] /\ numOut[1].minor = t[3]

\* C6: for every non-negative number, major_number() is the truncated
\* integer part and minor_number() is the first decimal digit after the
\* point, returned only if nonzero: None, or Some(d) with 1 <= d <= 9 and d
\* that digit; in particular the eleven triples of the test hold.
C6_MajorMinor ==
    numOut # None =>
        LET digit == (num \div 10) % 10
            out == numOut[1]
        IN  /\ out.major = num \div 100
            /\ out.minor = IF digit = 0 THEN None ELSE Some(digit)
            /\ out.minor # None => out.minor[1] \in 1..9
            /\ TestTriplesHold

-----------------------------------------------------------------------------
(* Properties of the rendering (SpecDisplay)                               *)

RECURSIVE SplitOnSpace(_)
\* the maximal space-free pieces of a text
SplitOnSpace(text) ==
    IF \A i \in 1..Len(text) : text[i] # 32 THEN <<text>>
    ELSE LET i == CHOOSE k \in 1..Len(text) :
                    text[k] = 32 /\ \A j \in 1..(k - 1) : text[j] # 32
         IN  <<SubSeq(text, 1, i - 1)>> \o SplitOnSpace(SubSeq(text, i + 1, Len(text)))

MnemonicLetter ==
    [m \in Mnemonics |->
        CASE m = "ProgramNumber" -> 79
          [] m = "ToolChange" -> 84
          [] m = "MachineRoutine" -> 77
          [] m = "General" -> 71]

\* General 1.2, line 10, X = 500, Y = -1.23
IsExample(gc) ==
    /\ gc.mnemonic = "General"
    /\ gc.number = 120
    /\ gc.line_number = Some(10)
    /\ Len(gc.arguments) = 2
    /\ gc.arguments[1].letter = 88 /\ gc.arguments[1].value = 50000
    /\ gc.arguments[2].letter = 89 /\ gc.arguments[2].value = -123

\* "N10 G1.2 X500 Y-1.23"
ExampleText ==
    <<78, 49, 48, 32, 71, 49, 46, 50, 32, 88, 53, 48, 48, 32, 89, 45, 49, 46, 50, 51>>

\* C7: the rendering of a Gcode is, in this order: "N<line_number> " only
\* when a line number is set, the mnemonic's letter (O, T, M or G), the
\* number, then for each stored argument in stored order a space, the
\* argument's letter and its value; the stored order is insertion order, an
\* overwritten letter staying where its first insertion put it; General 1.2,
\* line 10, X=500, Y=-1.23 renders as "N10 G1.2 X500 Y-1.23".
C7_Rendering ==
    LET tokens == SplitOnSpace(Render(g))
        k == IF g.line_number = None THEN 0 ELSE 1
    IN  /\ Len(tokens) = k + 1 + Len(g.arguments)
        /\ g.line_number # None => tokens[1] = <<78>> \o U32Text(g.line_number[1])
        /\ tokens[k + 1] = <<MnemonicLetter[g.mnemonic]>> \o F32Text(g.number)
        /\ \A i \in 1..Len(g.arguments) :
                /\ tokens[k + 1 + i] =
                        <<g.arguments[i].letter>> \o F32Text(g.arguments[i].value)
                /\ g.arguments[i].letter \in DOMAIN firstAt
                /\ firstAt[g.arguments[i].letter] = i
        /\ IsExample(g) => Render(g) = ExampleText

\* the example, X having been overwritten after Y was inserted
C7_Witness ==
    /\ IsExample(g)
    /\ WasArgument(last) /\ last.had /\ last.letter = 88
    /\ Render(g) = ExampleText

-----------------------------------------------------------------------------
(* Properties of Span::merge (SpecSpan)                                    *)

\* C8: merge(a, b) has start = min(a.start, b.start), end = max(a.end,
\* b.end), source_line = min(a.source_line, b.source_line), so that merging
\* {0,5,0} with {10,20,1} gives {0,20,0}; merge is commutative and
\* associative.
C8_Merge ==
    spOut # None =>
        LET a == spIn[1]
            b == spIn[2]
            out == spOut[1]
        IN  /\ out.ab.start \in {a.start, b.start}
            /\ out.ab.start <= a.start /\ out.ab.start <= b.start
            /\ out.ab.end \in {a.end, b.end}
            /\ out.ab.end >= a.end /\ out.ab.end >= b.end
            /\ out.ab.source_line \in {a.source_line, b.source_line}
            /\ out.ab.source_line <= a.source_line
            /\ out.ab.source_line <= b.source_line
            /\ (a = Span(0, 5, 0) /\ b = Span(10, 20, 1)) => out.ab = Span(0, 20, 0)
            /\ out.ab = out.ba
            /\ out.ab_c = out.a_bc

\* {0,5,0} and {10,20,1} have been merged with a third span that lies apart
C8_Witness ==
    /\ spOut # None
    /\ spIn[1] = Span(0, 5, 0)
    /\ spIn[2] = Span(10, 20, 1)
    /\ spIn[3] = Span(5, 10, 0)
    /\ spOut[1].ab = Span(0, 20, 0)

-----------------------------------------------------------------------------
(* Properties of State (SpecState)                                         *)

SameBut(field) ==
    \A f \in {"x", "y", "feed_rate", "coordinate_mode", "units"} \ {field} :
        st[f] = stPrev[f]

\* raw hundredths of a millimetre (Metric) or of an inch (Imperial), in
\* micrometres
InUnits(units, raw) == IF units = "Metric" THEN 10 * raw ELSE 254 * raw

\* C9: each State update replaces exactly one field and leaves the others,
\* units included, unchanged: with_x(raw) gives x = raw in the receiver's
\* units (10 under Imperial is 254 mm, not 10 mm), likewise with_y for y,
\* with_feed_rate for feed_rate (via to_speed), with_coordinate_mode for
\* coordinate_mode; after any sequence of them from State::default(), units
\* is still Metric.
C9_Frame ==
    /\ stLast.op = "with_x" =>
            st.x = InUnits(stPrev.units, stLast.raw) /\ SameBut("x")
    /\ stLast.op = "with_y" =>
            st.y = InUnits(stPrev.units, stLast.raw) /\ SameBut("y")
    /\ stLast.op = "with_feed_rate" =>
            /\ st.feed_rate = ToSpeed(stPrev, stLast.raw)
            /\ st.feed_rate = InUnits(stPrev.units, stLast.raw)
            /\ SameBut("feed_rate")
    /\ stLast.op = "with_coordinate_mode" =>
            st.coordinate_mode = stLast.mode /\ SameBut("coordinate_mode")
    /\ (stLast.op = "with_x" /\ stLast.raw = 1000 /\ stPrev.units = "Imperial") =>
            st.x = 254000 /\ st.x # 10000
    /\ stInit = DefaultState => st.units = "Metric"
    /\ st.units = stInit.units

\* with_x(10.0) on an Imperial state whose other fields were set before
C9_Witness ==
    /\ stLast.op = "with_x"
    /\ stLast.raw = 1000
    /\ st.units = "Imperial"
    /\ st.x = 254000
    /\ st.y = -63500
    /\ st.feed_rate = 254000
    /\ st.coordinate_mode = "Relative"

=============================================================================
